---- MODULE Spec2Model ----
(***************************************************************************)
(* Model of auto_derby/scenes/single_mode/training.py: the training-slot  *)
(* orchestrator (TrainingScene.recognize_v2, _iter_training_images), the   *)
(* per-slot recognizer (_recognize_training) and the pure recognizers it   *)
(* calls (scenario geometry, bond ratio, failure rate).                    *)
(*                                                                         *)
(* Coordinates are those of the 540-unit layout; the orchestrator is       *)
(* modelled at a device width of 540, where the resize proxy is the        *)
(* identity.                                                               *)
(***************************************************************************)
EXTENDS Integers, Sequences, FiniteSets, TLC

VARIABLES
    \* ---- orchestrator (Spec) ----
    scenario,            \* ctx.scenario
    static,              \* the static argument of recognize_v2
    is_summer_camp,      \* ctx.is_summer_camp
    pc,                  \* position of the calling thread in recognize_v2
    first_confirm_pos,   \* _iter_training_images: first_confirm_pos
    seen_confirm_pos,    \* _iter_training_images: seen_confirm_pos
    idx,                 \* index of the slot center the for loop is at
    cur_pos,             \* pos returned by the wait_image that follows a tap
    tasks,               \* the futures, in submission order
    collected,           \* the tuple(...) under construction
    exc,                 \* exception in flight through the with block
    err,                 \* what recognize_v2 raised
    trainings,           \* TrainingScene.trainings
    ctx_trainings,       \* ctx.trainings
    ctx_training_levels, \* ctx.training_levels
    pre,                 \* the three values above as they were before the call
    devlog,              \* device operations performed, in order
    out_of_order,        \* a future finished while an earlier one had not
    \* ---- scenario geometry lookups (SpecGeometry) ----
    geo_scenario,        \* the scenario the lookups are given
    geo_results,         \* per lookup: <<>>, or <<what it returned or raised>>
    \* ---- bond ratio (SpecSoul) ----
    soul_phase,          \* "idle", or which recognizer has run
    soul_call,           \* what _recognize_soul measured
    soul_ret,            \* what _recognize_soul returned
    icon_scenario,       \* ctx.scenario of _recognize_partner_icon
    icon,                \* what the recognizers measure on the icon
    partner,             \* what _recognize_partner_icon returned
    \* ---- failure rate (SpecFailureRate) ----
    ocr_text,            \* the text ocr.text returns for the rate region
    failure_rate,        \* what _recognize_failure_rate returned or raised
    \* ---- vitality estimate (SpecVitality) ----
    vit_scenario,        \* ctx.scenario of _recognize_training
    vit_pos,             \* the marker position of the slot
    vit_color,           \* the colour class of the level pixel
    vit_max,             \* ctx.max_vitality
    vit_phase,           \* "idle", or how far _recognize_training has come
    vit_trn,             \* the Training under construction: type and level
    vit_ret,             \* what _estimate_vitality returned or raised
    \* ---- effect digits (SpecEffect) ----
    eff_variant,         \* "base" or "red"
    eff_count,           \* cv2.countNonZero(text_img)
    eff_hash_sim,        \* the best similarity to a hash of hash100, in 1/100
    eff_text,            \* the text ocr.text returns for the glyph mask
    eff_ocr,             \* whether ocr.text was called
    eff_ret,             \* what the recognizer returned or raised
    \* ---- bond level (SpecLevel) ----
    lvl_pixels,          \* what is seen at the five checked positions
    lvl_ret,             \* what _recognize_partner_level returned
    \* ---- partner enumeration (SpecPartners) ----
    part_scenario,       \* ctx.scenario of _recognize_partners
    part_phase,          \* "idle", "start", "loop", "done" or "raised"
    part_bbox,           \* icon_bbox
    part_offset,         \* icon_y_offset
    part_examined,       \* the regions given to _recognize_partner_icon
    part_partners        \* the Partners yielded, in order

\* What the caller passes in; no step changes it.
inputVars == <<scenario, static, is_summer_camp, pre>>

\* The locals of _iter_training_images, and the device.
iterVars == <<first_confirm_pos, seen_confirm_pos, idx, cur_pos, devlog>>

\* What recognize_v2 writes.
outVars == <<trainings, ctx_trainings, ctx_training_levels>>

orchVars == <<inputVars, iterVars, outVars, pc, tasks, collected, exc, err,
              out_of_order>>

geoVars == <<geo_scenario, geo_results>>

soulVars == <<soul_phase, soul_call, soul_ret, icon_scenario, icon, partner>>

rateVars == <<ocr_text, failure_rate>>

vitVars == <<vit_scenario, vit_pos, vit_color, vit_max, vit_phase, vit_trn,
             vit_ret>>

effVars == <<eff_variant, eff_count, eff_hash_sim, eff_text, eff_ocr, eff_ret>>

lvlVars == <<lvl_pixels, lvl_ret>>

partVars == <<part_scenario, part_phase, part_bbox, part_offset, part_examined,
              part_partners>>

\* The variables of the recognizers specified on their own further down.
extVars == <<vitVars, effVars, lvlVars, partVars>>

vars == <<orchVars, geoVars, soulVars, rateVars, extVars>>

-----------------------------------------------------------------------------
(* Scenarios and training types                                            *)

Scenarios == {"URA", "AOHARU", "CLIMAX", "GRAND_MASTERS", "GRAND_LIVE",
              "PROJECT_LARK", "UAF_READY_GO"}

\* A scenario value none of the lookups knows.
UnknownScenario == "UNKNOWN"

AllScenarios == Scenarios \cup {UnknownScenario}

\* Training.ALL_TYPES, in order.
ALL_TYPES == <<"speed", "stamina", "power", "guts", "wisdom">>

\* Training.new(): the level before any recognition.
LevelUnknown == 0

None == "none"

-----------------------------------------------------------------------------
(* Geometry of the slot centers                                            *)

iter_training_confirm_pos(sc) ==
    IF sc = "PROJECT_LARK"
    THEN << <<33, 835>>, <<121, 835>>, <<209, 835>>, <<297, 835>>, <<385, 835>> >>
    ELSE << <<78, 850>>, <<171, 850>>, <<268, 850>>, <<367, 850>>, <<461, 850>> >>

\* rp.vector(30, 540)
Radius == 30

Abs(n) == IF n < 0 THEN -n ELSE n

\* mathtools.distance(a, b) < r, on integers: the squares are compared.
DistanceBelow(a, b, r) ==
    (a[1] - b[1]) * (a[1] - b[1]) + (a[2] - b[2]) * (a[2] - b[2]) < r * r

-----------------------------------------------------------------------------
(* Results of a call that may raise                                        *)

Ok(v) == [ok |-> TRUE, val |-> v]

Raise(e) == [ok |-> FALSE, val |-> e]

-----------------------------------------------------------------------------
(* Scenario geometry lookups                                               *)

\* rp.vector4((l, t, r, b), 540) at the layout's own width.
Box(l, t, r, b) == <<l, t, r, b>>

\* _effect_recognitions._bbox_groups(t, b)
EffectBboxGroups(t, b) ==
    << Box(18, t, 104, b), Box(104, t, 190, b), Box(190, t, 273, b),
       Box(273, t, 358, b), Box(358, t, 441, b), Box(448, t, 521, b) >>

\* _effect_recognitions: the (bbox group, recognizer) pairs it yields, or
\* NotImplementedError.
effect_recognitions(sc) ==
    IF sc = "URA"
    THEN Ok(<< <<EffectBboxGroups(582, 616), "base">> >>)
    ELSE IF sc = "AOHARU"
    THEN Ok(<< <<EffectBboxGroups(597, 625), "base">>,
               <<EffectBboxGroups(570, 595), "red">> >>)
    ELSE IF sc \in {"CLIMAX", "GRAND_LIVE", "GRAND_MASTERS", "PROJECT_LARK",
                    "UAF_READY_GO"}
    THEN Ok(<< <<EffectBboxGroups(595, 623), "base">>,
               <<EffectBboxGroups(568, 593), "red">> >>)
    ELSE Raise("NotImplementedError")

\* _performance_recognitions._bbox_groups(left, right)
PerformanceBboxGroups(left, right) ==
    << Box(left, 265, right, 292), Box(left, 314, right, 341),
       Box(left, 363, right, 390), Box(left, 412, right, 439),
       Box(left, 461, right, 488) >>

\* _performance_recognitions
performance_recognitions(sc) ==
    IF sc = "GRAND_LIVE"
    THEN Ok(<< <<PerformanceBboxGroups(88, 88 + 58), "base">> >>)
    ELSE Raise("NotImplementedError")

\* _recognize_partners: the dict of (icon_bbox, icon_y_offset) indexed by
\* ctx.scenario; a missing key raises KeyError.
partner_icon_geometry(sc) ==
    IF sc = "URA" THEN Ok(<<Box(448, 146, 516, 220), 90>>)
    ELSE IF sc = "AOHARU" THEN Ok(<<Box(448, 147, 516, 220), 86>>)
    ELSE IF sc = "CLIMAX" THEN Ok(<<Box(448, 147, 516, 220), 90>>)
    ELSE IF sc = "GRAND_MASTERS" THEN Ok(<<Box(448, 147, 516, 220), 90>>)
    ELSE IF sc = "GRAND_LIVE" THEN Ok(<<Box(448, 147, 516, 220), 86>>)
    ELSE IF sc = "PROJECT_LARK" THEN Ok(<<Box(448, 147, 516, 220), 86>>)
    ELSE IF sc = "UAF_READY_GO" THEN Ok(<<Box(448, 147, 516, 220), 86>>)
    ELSE Raise("KeyError")

-----------------------------------------------------------------------------
(* The per-slot recognizer                                                 *)

\* The colour of the level pixel, by the reference colour it is within 0.9
\* of ("other": none of them).
LevelColors == {"green", "blue", "orange", "pink", "purple", "other"}

\* _recognize_level
recognize_level(color) ==
    IF color = "green" THEN Ok(1)
    ELSE IF color = "blue" THEN Ok(2)
    ELSE IF color = "orange" THEN Ok(3)
    ELSE IF color = "pink" THEN Ok(4)
    ELSE IF color = "purple" THEN Ok(5)
    ELSE Raise("ValueError")

\* _recognize_training, the loop over zip(ALL_TYPES, centers): the type of
\* the first center at the least horizontal distance from the marker.
TrainingType(sc, pos) ==
    LET c == iter_training_confirm_pos(sc)
        n == IF Len(c) < Len(ALL_TYPES) THEN Len(c) ELSE Len(ALL_TYPES)
        d(i) == Abs(pos[1] - c[i][1])
        best == CHOOSE i \in 1..n :
                    \A j \in 1..n : d(i) < d(j) \/ (d(i) = d(j) /\ i <= j)
    IN  ALL_TYPES[best]

\* _recognize_training on a screenshot img whose marker is at pos.  img
\* carries what the pixel recognizers read from it: level_color, and ocr_ok
\* (whether every OCR text read from it parses as a number).
recognize_training(sc, img, pos) ==
    LET type == TrainingType(sc, pos)
        lvl  == IF sc # "UAF_READY_GO"
                THEN recognize_level(img.level_color)
                ELSE Ok(LevelUnknown)
    IN  IF ~lvl.ok THEN lvl
        ELSE IF ~effect_recognitions(sc).ok THEN effect_recognitions(sc)
        ELSE IF sc = "GRAND_LIVE" /\ ~performance_recognitions(sc).ok
        THEN performance_recognitions(sc)
        ELSE IF ~img.ocr_ok THEN Raise("ValueError")
        ELSE IF ~partner_icon_geometry(sc).ok THEN partner_icon_geometry(sc)
        ELSE Ok([type |-> type, level |-> lvl.val, confirm_position |-> pos])

-----------------------------------------------------------------------------
(* The orchestrator: _iter_training_images and recognize_v2                *)

\* Marker positions action.wait_image may report.  <<78, 850>> is a slot
\* center of the default table, <<209, 835>> one of the Project L'Arc table;
\* <<90, 700>> is nearest to the same center as <<78, 850>> in both tables.
MarkerPositions == { <<78, 850>>, <<90, 700>>, <<209, 835>> }

\* Screenshots app.device.screenshot() may return: one every recognizer
\* reads, one whose level pixel and OCR texts cannot be read.
Images == { [level_color |-> "green", ocr_ok |-> TRUE],
            [level_color |-> "other", ocr_ok |-> FALSE] }

\* Scenarios the orchestrator is run with: the Project L'Arc table, the
\* default table, the scenario whose level is not recognized, and one no
\* lookup knows.
OrchScenarios == {"URA", "PROJECT_LARK", "UAF_READY_GO", UnknownScenario}

\* A marker position and a screenshot of an earlier call.
PriorPos == <<461, 700>>

PriorImg == [level_color |-> "orange", ocr_ok |-> TRUE]

\* Mutant of StopAfterFirst: the static flag is ignored.
StopAfterFirstNever(st) == FALSE

\* `if static: return`
StopAfterFirst(st) == st

\* `if mathtools.distance(first_confirm_pos, pos) < radius: continue`
SkipCenter(first, center) == DistanceBelow(first, center, Radius)

\* `if pos not in seen_confirm_pos`
NotSeen(pos, seen) == pos \notin seen

\* Mutant of SeenAfter: the position is not added to the set.
SeenAfterForgets(seen, pos) == seen

\* `seen_confirm_pos.add(pos)`
SeenAfter(seen, pos) == seen \cup {pos}

\* pool.submit(_recognize_training, ctx, (img, pos)): a future not yet done.
Submitted(img, pos) == [img |-> img, pos |-> pos, st |-> "pending", res |-> None]

\* Mutant of NextFuture: the futures are taken from the last submitted.
NextFutureReversed(fs, got) == fs[Len(fs) - Len(got)]

\* The future whose result() the tuple(...) asks for next: the futures are
\* taken in the order of the list, which is the order of submission.
NextFuture(fs, got) == fs[Len(got) + 1]

\* Mutant of TrainingsOnRaise: the results gathered so far are stored.
TrainingsOnRaisePartial(old, partial) == partial

\* What self.trainings is when a result() raises inside tuple(...): the
\* assignment is never reached.
TrainingsOnRaise(old, partial) == old

\* Mutant of PoolExitReady: shutdown(wait=False).
PoolExitNoWait(fs) == TRUE

\* ThreadPoolExecutor.__exit__ is shutdown(wait=True): the with block is
\* left when every submitted future has finished.
PoolExitReady(fs) == \A i \in 1..Len(fs) : fs[i].st = "done"

\* Mutant of TypesDistinct: the assertion is not made.
TypesDistinctOff(trn) == TRUE

\* `len(set(i.type for i in self.trainings)) == len(self.trainings)`
TypesDistinct(trn) ==
    Cardinality({trn[i].type : i \in 1..Len(trn)}) = Len(trn)

\* `{i.type: i.level for i in self.trainings}`: a later record of a type
\* replaces an earlier one.
LevelMap(trn) ==
    [t \in {trn[i].type : i \in 1..Len(trn)} |->
        LET last == CHOOSE i \in 1..Len(trn) :
                        /\ trn[i].type = t
                        /\ \A j \in 1..Len(trn) : trn[j].type = t => j <= i
        IN  trn[last].level]

\* Mutant of UpdatesLevels: the summer camp is not told apart.
UpdatesLevelsAlways(camp) == TRUE

\* `if not ctx.is_summer_camp`
UpdatesLevels(camp) == ~camp

\* `tuple(i.result() for i in [...])`, once every result is in.
ResultTuple(got) == got

NumCenters(sc) == Len(iter_training_confirm_pos(sc))

\* The for loop over the slot centers: on to the next center, or out of
\* the generator and into the collection of the results.
LoopPc(sc, i) == IF i > NumCenters(sc) THEN "collect" ELSE "loop"

\* The state an earlier call of recognize_v2(ctx, static=True) on the same
\* scene and context leaves.
PriorTrainings(sc) ==
    LET r == recognize_training(sc, PriorImg, PriorPos)
    IN  IF r.ok THEN <<r.val>> ELSE <<>>

EmptyLevels == [t \in {} |-> 0]

\* The variables of the other specifications, at rest.
OrchIdle ==
    /\ scenario = None /\ static = FALSE /\ is_summer_camp = FALSE
    /\ pc = "idle" /\ first_confirm_pos = None /\ seen_confirm_pos = {}
    /\ idx = 0 /\ cur_pos = None /\ tasks = <<>> /\ collected = <<>>
    /\ exc = None /\ err = None /\ trainings = <<>> /\ ctx_trainings = <<>>
    /\ ctx_training_levels = EmptyLevels /\ pre = None /\ devlog = <<>>
    /\ out_of_order = FALSE

GeoIdle == geo_scenario = None /\ geo_results = None

SoulIdle ==
    /\ soul_phase = "idle" /\ soul_call = None /\ soul_ret = <<>>
    /\ icon_scenario = None /\ icon = None /\ partner = <<>>

RateIdle == ocr_text = <<>> /\ failure_rate = <<>>

VitIdle ==
    /\ vit_scenario = None /\ vit_pos = None /\ vit_color = None
    /\ vit_max = 0 /\ vit_phase = "idle" /\ vit_trn = None /\ vit_ret = <<>>

EffIdle ==
    /\ eff_variant = None /\ eff_count = 0 /\ eff_hash_sim = 0
    /\ eff_text = <<>> /\ eff_ocr = FALSE /\ eff_ret = <<>>

LvlIdle == lvl_pixels = <<>> /\ lvl_ret = <<>>

PartIdle ==
    /\ part_scenario = None /\ part_phase = "idle" /\ part_bbox = <<>>
    /\ part_offset = 0 /\ part_examined = <<>> /\ part_partners = <<>>

ExtIdle == VitIdle /\ EffIdle /\ LvlIdle /\ PartIdle

Init ==
    /\ GeoIdle /\ SoulIdle /\ RateIdle /\ ExtIdle
    /\ scenario \in OrchScenarios
    /\ static \in BOOLEAN
    /\ is_summer_camp \in BOOLEAN
    /\ pc = "start"
    /\ first_confirm_pos = None
    /\ seen_confirm_pos = {}
    /\ idx = 0
    /\ cur_pos = None
    /\ tasks = <<>>
    /\ collected = <<>>
    /\ exc = None
    /\ err = None
    /\ \E used \in BOOLEAN :
         /\ trainings = IF used THEN PriorTrainings(scenario) ELSE <<>>
         /\ ctx_trainings = trainings
         /\ ctx_training_levels = LevelMap(trainings)
    /\ pre = [trainings |-> trainings, ctx_trainings |-> ctx_trainings,
              ctx_training_levels |-> ctx_training_levels]
    /\ devlog = <<>>
    /\ out_of_order = FALSE

\* action.wait_image(_TRAINING_CONFIRM, ...): the first marker.
WaitFirst ==
    /\ pc = "start"
    /\ \E p \in MarkerPositions : first_confirm_pos' = p
    /\ devlog' = Append(devlog, <<"wait", 0>>)
    /\ pc' = "shot_first"
    /\ UNCHANGED <<geoVars, soulVars, rateVars, extVars>>
    /\ UNCHANGED <<inputVars, outVars, seen_confirm_pos, idx, cur_pos, tasks,
                   collected, exc, err, out_of_order>>

\* `yield app.device.screenshot(), first_confirm_pos`, the submit of the pair
\* and `if static: return`.
ShotFirst ==
    /\ pc = "shot_first"
    /\ \E img \in Images :
         tasks' = Append(tasks, Submitted(img, first_confirm_pos))
    /\ devlog' = Append(devlog, <<"shot", 0>>)
    /\ seen_confirm_pos' = {first_confirm_pos}
    /\ idx' = 1
    /\ pc' = IF StopAfterFirst(static) THEN "collect" ELSE LoopPc(scenario, 1)
    /\ UNCHANGED <<geoVars, soulVars, rateVars, extVars>>
    /\ UNCHANGED <<inputVars, outVars, first_confirm_pos, cur_pos, collected,
                   exc, err, out_of_order>>

\* A slot center too close to the first marker: `continue`.
SkipSlot ==
    /\ pc = "loop"
    /\ SkipCenter(first_confirm_pos, iter_training_confirm_pos(scenario)[idx])
    /\ idx' = idx + 1
    /\ pc' = LoopPc(scenario, idx + 1)
    /\ UNCHANGED <<geoVars, soulVars, rateVars, extVars>>
    /\ UNCHANGED <<inputVars, outVars, first_confirm_pos, seen_confirm_pos,
                   cur_pos, devlog, tasks, collected, exc, err, out_of_order>>

\* app.device.tap(...) on the slot's icon.
Tap ==
    /\ pc = "loop"
    /\ ~SkipCenter(first_confirm_pos, iter_training_confirm_pos(scenario)[idx])
    /\ devlog' = Append(devlog, <<"tap", idx>>)
    /\ pc' = "wait"
    /\ UNCHANGED <<geoVars, soulVars, rateVars, extVars>>
    /\ UNCHANGED <<inputVars, outVars, first_confirm_pos, seen_confirm_pos,
                   idx, cur_pos, tasks, collected, exc, err, out_of_order>>

\* `_, pos = action.wait_image(tmpl)`
Wait ==
    /\ pc = "wait"
    /\ \E p \in MarkerPositions : cur_pos' = p
    /\ devlog' = Append(devlog, <<"wait", idx>>)
    /\ pc' = "got"
    /\ UNCHANGED <<geoVars, soulVars, rateVars, extVars>>
    /\ UNCHANGED <<inputVars, outVars, first_confirm_pos, seen_confirm_pos,
                   idx, tasks, collected, exc, err, out_of_order>>

\* `if pos not in seen_confirm_pos`: `yield app.device.screenshot(), pos`,
\* the submit of the pair and `seen_confirm_pos.add(pos)`.
Shot ==
    /\ pc = "got"
    /\ NotSeen(cur_pos, seen_confirm_pos)
    /\ \E img \in Images : tasks' = Append(tasks, Submitted(img, cur_pos))
    /\ devlog' = Append(devlog, <<"shot", idx>>)
    /\ seen_confirm_pos' = SeenAfter(seen_confirm_pos, cur_pos)
    /\ cur_pos' = None
    /\ idx' = idx + 1
    /\ pc' = LoopPc(scenario, idx + 1)
    /\ UNCHANGED <<geoVars, soulVars, rateVars, extVars>>
    /\ UNCHANGED <<inputVars, outVars, first_confirm_pos, collected, exc, err,
                   out_of_order>>

\* The marker is where it was seen before: on to the next center.
SeenAgain ==
    /\ pc = "got"
    /\ ~NotSeen(cur_pos, seen_confirm_pos)
    /\ cur_pos' = None
    /\ idx' = idx + 1
    /\ pc' = LoopPc(scenario, idx + 1)
    /\ UNCHANGED <<geoVars, soulVars, rateVars, extVars>>
    /\ UNCHANGED <<inputVars, outVars, first_confirm_pos, seen_confirm_pos,
                   devlog, tasks, collected, exc, err, out_of_order>>

\* Mutant of WorkerDevice: the recognizer takes a screenshot of its own.
WorkerDeviceShot(log) == Append(log, <<"shot", 0>>)

\* The device operations of _recognize_training: it works on the image it
\* was given and calls neither app.device nor action.
WorkerDevice(log) == log

\* A worker thread runs _recognize_training on a submitted future to its
\* end: the future then holds the Training or the exception.  The pool has
\* at least five threads, so the futures finish in any order.
Worker(i) ==
    /\ i \in 1..Len(tasks)
    /\ tasks[i].st = "pending"
    /\ tasks' = [tasks EXCEPT
                   ![i].st = "done",
                   ![i].res = recognize_training(scenario, tasks[i].img,
                                                 tasks[i].pos)]
    /\ out_of_order' = (out_of_order
                        \/ \E j \in 1..(i - 1) : tasks[j].st = "pending")
    /\ devlog' = WorkerDevice(devlog)
    /\ UNCHANGED <<geoVars, soulVars, rateVars, extVars>>
    /\ UNCHANGED <<inputVars, outVars, first_confirm_pos, seen_confirm_pos,
                   idx, cur_pos, pc, collected, exc, err>>

\* `i.result()` of the next future, which blocks until it is done.
Collect ==
    /\ pc = "collect"
    /\ Len(collected) < Len(tasks)
    /\ LET f == NextFuture(tasks, collected) IN
         /\ f.st = "done"
         /\ IF f.res.ok
            THEN /\ collected' = Append(collected, f.res.val)
                 /\ UNCHANGED <<pc, exc, trainings>>
            ELSE /\ exc' = f.res.val
                 /\ trainings' = TrainingsOnRaise(trainings, collected)
                 /\ pc' = "exit"
                 /\ UNCHANGED collected
    /\ UNCHANGED <<geoVars, soulVars, rateVars, extVars>>
    /\ UNCHANGED <<inputVars, iterVars, ctx_trainings, ctx_training_levels,
                   tasks, err, out_of_order>>

\* `self.trainings = tuple(...)`: every result is in.
Assign ==
    /\ pc = "collect"
    /\ Len(collected) = Len(tasks)
    /\ trainings' = ResultTuple(collected)
    /\ pc' = "exit"
    /\ UNCHANGED <<geoVars, soulVars, rateVars, extVars>>
    /\ UNCHANGED <<inputVars, iterVars, ctx_trainings, ctx_training_levels,
                   tasks, collected, exc, err, out_of_order>>

\* The end of the with block, and what follows it: the exception in flight
\* is raised, or the assertion is made and the context is updated.
Exit ==
    /\ pc = "exit"
    /\ PoolExitReady(tasks)
    /\ IF exc # None
       THEN /\ pc' = "raised"
            /\ err' = exc
            /\ UNCHANGED <<ctx_trainings, ctx_training_levels>>
       ELSE IF ~TypesDistinct(trainings)
       THEN /\ pc' = "raised"
            /\ err' = "duplicated trainings"
            /\ UNCHANGED <<ctx_trainings, ctx_training_levels>>
       ELSE /\ pc' = "returned"
            /\ err' = None
            /\ ctx_trainings' = trainings
            /\ ctx_training_levels' =
                 IF UpdatesLevels(is_summer_camp)
                 THEN LevelMap(trainings)
                 ELSE ctx_training_levels
    /\ UNCHANGED <<geoVars, soulVars, rateVars, extVars>>
    /\ UNCHANGED <<inputVars, iterVars, trainings, tasks, collected, exc,
                   out_of_order>>

Next ==
    \/ WaitFirst
    \/ ShotFirst
    \/ SkipSlot
    \/ Tap
    \/ Wait
    \/ Shot
    \/ SeenAgain
    \/ \E i \in 1..Len(tasks) : Worker(i)
    \/ Collect
    \/ Assign
    \/ Exit

Spec == Init /\ [][Next]_vars

-----------------------------------------------------------------------------
(* Properties of the orchestrator                                          *)

Final == pc \in {"returned", "raised"}

\* Every dispatched recognition has ended with a Training.
AllRecognized ==
    \A i \in 1..Len(tasks) : tasks[i].st = "done" /\ tasks[i].res.ok

SomeRecognitionRaised ==
    \E i \in 1..Len(tasks) : tasks[i].st = "done" /\ ~tasks[i].res.ok

\* Two captured slots were recognized with the same type.
SameTypeTwice ==
    \E i, j \in 1..Len(tasks) :
        /\ i # j
        /\ tasks[i].st = "done" /\ tasks[i].res.ok
        /\ tasks[j].st = "done" /\ tasks[j].res.ok
        /\ tasks[i].res.val.type = tasks[j].res.val.type

C2_StaticSingleSlot ==
    static =>
        /\ \A k \in 1..Len(devlog) : devlog[k][1] # "tap"
        /\ Len(tasks) <= 1
        /\ pc \notin {"start", "shot_first"} =>
             /\ devlog = << <<"wait", 0>>, <<"shot", 0>> >>
             /\ Len(tasks) = 1
             /\ tasks[1].pos = first_confirm_pos
        /\ pc = "returned" => Len(trainings) = 1

C2_Witness ==
    /\ static
    /\ pc = "returned"
    /\ Len(trainings) = 1

\* The indices of devlog holding the operation op on slot c.
LogAt(op, c) == {k \in 1..Len(devlog) : devlog[k] = <<op, c>>}

\* The generator is exhausted.
IterDone == pc \in {"collect", "exit", "returned", "raised"}

\* C3, in every state of a non-static pass: a center closer to the first
\* marker than the radius is never tapped; the taps are made in table order,
\* each at most once and each followed by the wait for the marker; when the
\* loop is over every other center was tapped exactly once; and the marker
\* positions of the captured slots are pairwise distinct.
C3_State ==
    ~static =>
        /\ \A k \in 1..Len(devlog) :
             devlog[k][1] = "tap" =>
                /\ ~DistanceBelow(first_confirm_pos,
                                  iter_training_confirm_pos(scenario)[devlog[k][2]],
                                  Radius)
                /\ k < Len(devlog) => devlog[k + 1] = <<"wait", devlog[k][2]>>
                /\ \A m \in 1..(k - 1) :
                       devlog[m][1] = "tap" => devlog[m][2] < devlog[k][2]
        /\ IterDone =>
             \A c \in 1..5 :
                IF DistanceBelow(first_confirm_pos,
                                 iter_training_confirm_pos(scenario)[c], Radius)
                THEN LogAt("tap", c) = {}
                ELSE /\ Cardinality(LogAt("tap", c)) = 1
                     /\ Cardinality(LogAt("wait", c)) = 1
        /\ \A i, j \in 1..Len(tasks) : i # j => tasks[i].pos # tasks[j].pos

\* C3, in every step that follows the wait after a tap: a screenshot is
\* captured, and its pair submitted, exactly if the position the wait
\* returned is the position of no slot captured before.
C3_Step ==
    (pc = "got" /\ pc' # "got") =>
        LET captured == {tasks[i].pos : i \in 1..Len(tasks)}
        IN  (cur_pos \notin captured) <=>
                /\ devlog' = Append(devlog, <<"shot", idx>>)
                /\ Len(tasks') = Len(tasks) + 1
                /\ tasks'[Len(tasks')].pos = cur_pos

C3_TapWaitCapture == [](C3_State) /\ [][C3_Step]_vars

C3_Witness ==
    /\ ~static
    /\ IterDone
    /\ Len(tasks) = 3
    /\ \E c \in 1..5 : LogAt("tap", c) = {}
    /\ \E c \in 1..5 : LogAt("wait", c) # {} /\ LogAt("shot", c) = {}

\* C4: when recognize_v2 returns, the result holds one Training per captured
\* slot and the i-th Training is the one recognized from the i-th captured
\* slot, at that slot's marker position.
C4_SubmissionOrder ==
    pc = "returned" =>
        /\ Len(trainings) = Len(tasks)
        /\ \A i \in 1..Len(tasks) :
               /\ trainings[i] = tasks[i].res.val
               /\ trainings[i].confirm_position = tasks[i].pos

C4_Witness ==
    /\ pc = "returned"
    /\ Len(trainings) >= 2
    /\ out_of_order

\* C5: when the recognition of a captured slot raised, recognize_v2 ends by
\* raising, and the scene's trainings, ctx.trainings and ctx.training_levels
\* are as they were before the call.
C5_NoPartialResult ==
    (Final /\ SomeRecognitionRaised) =>
        /\ pc = "raised"
        /\ err # "duplicated trainings"
        /\ trainings = pre.trainings
        /\ ctx_trainings = pre.ctx_trainings
        /\ ctx_training_levels = pre.ctx_training_levels

C5_Witness ==
    /\ pc = "raised"
    /\ SomeRecognitionRaised
    /\ Len(collected) >= 1
    /\ \E i \in 1..Len(tasks) : tasks[i].res.ok

\* C6: recognize_v2 has neither returned nor raised while a recognition it
\* dispatched has not ended; every dispatched recognition ends with its
\* Training or its exception.
C6_JoinAll ==
    Final =>
        \A i \in 1..Len(tasks) :
            /\ tasks[i].st = "done"
            /\ tasks[i].res = recognize_training(scenario, tasks[i].img,
                                                 tasks[i].pos)

\* The result of an earlier slot has raised, a later recognition is still
\* to end, and recognize_v2 waits.
C6_Witness ==
    /\ pc = "exit"
    /\ exc # None
    /\ \E i \in 1..Len(tasks) : tasks[i].st = "pending"
    /\ ~ENABLED Exit

\* C7: when recognize_v2 returns, ctx.trainings is the result; with
\* ctx.is_summer_camp false ctx.training_levels maps exactly the types of
\* the result, each to its record's level, and with ctx.is_summer_camp true
\* it is what it was before the call.
C7_ContextUpdate ==
    pc = "returned" =>
        /\ ctx_trainings = trainings
        /\ Len(trainings) = Len(tasks)
        /\ \A i \in 1..Len(tasks) : trainings[i] = tasks[i].res.val
        /\ ~is_summer_camp =>
             /\ DOMAIN ctx_training_levels
                  = {trainings[i].type : i \in 1..Len(trainings)}
             /\ \A i \in 1..Len(trainings) :
                    ctx_training_levels[trainings[i].type] = trainings[i].level
        /\ is_summer_camp => ctx_training_levels = pre.ctx_training_levels

C7_Witness ==
    /\ pc = "returned"
    /\ is_summer_camp
    /\ pre.ctx_training_levels # EmptyLevels
    /\ DOMAIN ctx_training_levels
         # {trainings[i].type : i \in 1..Len(trainings)}

\* The device operations of one kind in devlog.
LogOf(op) == {k \in 1..Len(devlog) : devlog[k][1] = op}

\* C16, in every state: the device operations are the wait for the first
\* marker, its screenshot, and then per slot a tap, the wait that follows
\* it and at most one screenshot, which comes right after that wait; and
\* there are as many screenshots as recognition tasks.
C16_State ==
    /\ Len(devlog) >= 1 => devlog[1] = <<"wait", 0>>
    /\ Len(devlog) >= 2 => devlog[2] = <<"shot", 0>>
    /\ \A k \in 3..Len(devlog) :
         LET c == devlog[k][2]
         IN  /\ c \in 1..5
             /\ devlog[k][1] = "tap" => devlog[k - 1][1] \in {"wait", "shot"}
             /\ devlog[k][1] = "wait" => devlog[k - 1] = <<"tap", c>>
             /\ devlog[k][1] = "shot" =>
                  (devlog[k - 1] = <<"wait", c>> /\ devlog[k - 2] = <<"tap", c>>)
    /\ Cardinality(LogOf("shot")) = Len(tasks)

\* C16, in every step: a device operation is one operation, made by the
\* calling thread inside the generator, in a step in which no recognition
\* task moves; a step in which a worker ends a task makes none.
C16_Step ==
    /\ devlog' # devlog =>
         /\ Len(devlog') = Len(devlog) + 1
         /\ SubSeq(devlog', 1, Len(devlog)) = devlog
         /\ pc \in {"start", "shot_first", "loop", "wait", "got"}
         /\ pc' # pc \/ idx' # idx
         /\ \A i \in 1..Len(tasks) : tasks'[i] = tasks[i]
    /\ (\E i \in 1..Len(tasks) : tasks'[i] # tasks[i]) => devlog' = devlog

C16_SingleThreadedDevice == [](C16_State) /\ [][C16_Step]_vars

\* A recognition has ended on a worker while the calling thread is between
\* a tap and the end of the wait that follows it.
C16_Witness ==
    /\ pc = "wait"
    /\ Len(tasks) >= 2
    /\ \E i \in 1..Len(tasks) : tasks[i].st = "done"
    /\ \E i \in 1..Len(tasks) : tasks[i].st = "pending"

\* C19: a call that ends with the duplicated-trainings error leaves the
\* scene's trainings, ctx.trainings and ctx.training_levels as they were
\* before the call.
C19_DuplicateExposesNothing ==
    (pc = "raised" /\ err = "duplicated trainings") =>
        /\ trainings = pre.trainings
        /\ ctx_trainings = pre.ctx_trainings
        /\ ctx_training_levels = pre.ctx_training_levels

-----------------------------------------------------------------------------
(* The scenario geometry lookups, each called on its own                   *)

GeoLookups == {"slot_centers", "effect_columns", "performance_columns",
               "partner_icons"}

\* _iter_training_confirm_pos has no raising branch: it returns a table.
slot_centers_lookup(sc) == Ok(iter_training_confirm_pos(sc))

GeoInit ==
    /\ OrchIdle /\ SoulIdle /\ RateIdle /\ ExtIdle
    /\ geo_scenario \in AllScenarios
    /\ geo_results = [l \in GeoLookups |-> <<>>]

\* _iter_training_confirm_pos(ctx)
LookupSlotCenters ==
    /\ geo_results["slot_centers"] = <<>>
    /\ geo_results' = [geo_results EXCEPT
                         !["slot_centers"] = <<slot_centers_lookup(geo_scenario)>>]
    /\ UNCHANGED <<orchVars, soulVars, rateVars, extVars, geo_scenario>>

\* _effect_recognitions(ctx, rp), iterated by its caller
LookupEffectColumns ==
    /\ geo_results["effect_columns"] = <<>>
    /\ geo_results' = [geo_results EXCEPT
                         !["effect_columns"] = <<effect_recognitions(geo_scenario)>>]
    /\ UNCHANGED <<orchVars, soulVars, rateVars, extVars, geo_scenario>>

\* _performance_recognitions(ctx, rp), iterated by its caller
LookupPerformanceColumns ==
    /\ geo_results["performance_columns"] = <<>>
    /\ geo_results' = [geo_results EXCEPT
                         !["performance_columns"] =
                             <<performance_recognitions(geo_scenario)>>]
    /\ UNCHANGED <<orchVars, soulVars, rateVars, extVars, geo_scenario>>

\* The icon_bbox, icon_y_offset lookup of _recognize_partners(ctx, img)
LookupPartnerIcons ==
    /\ geo_results["partner_icons"] = <<>>
    /\ geo_results' = [geo_results EXCEPT
                         !["partner_icons"] = <<partner_icon_geometry(geo_scenario)>>]
    /\ UNCHANGED <<orchVars, soulVars, rateVars, extVars, geo_scenario>>

GeoNext ==
    \/ LookupSlotCenters
    \/ LookupEffectColumns
    \/ LookupPerformanceColumns
    \/ LookupPartnerIcons

SpecGeometry == GeoInit /\ [][GeoNext]_vars

\* C8: every geometry lookup given a scenario it does not recognize raises.
C8_UnknownScenarioRaises ==
    geo_scenario \notin Scenarios =>
        \A l \in GeoLookups :
            geo_results[l] # <<>> => ~geo_results[l][1].ok

-----------------------------------------------------------------------------
(* The partner-icon recognizer and the bond ratio                          *)

\* Fractions n/d with d > 0 stand for the floats of the code.
Rat(k) == [n |-> k, d |-> 1]

Frac(a, b) == [n |-> a, d |-> b]

RatSub(x, y) == [n |-> x.n * y.d - y.n * x.d, d |-> x.d * y.d]

RatLess(x, y) == x.n * y.d < y.n * x.d

\* Python's min(x, y) and max(x, y): the first argument unless the second
\* is strictly less, or greater.
RatMin(x, y) == IF RatLess(y, x) THEN y ELSE x

RatMax(x, y) == IF RatLess(x, y) THEN y ELSE x

\* Mutant of Clamp01: the ratio is returned as computed.
NoClamp(x) == x

\* `max(0, min(1, ...))`
Clamp01(x) == RatMax(Rat(0), RatMin(Rat(1), x))

\* `outline_avg = 45`
OutlineAvg == 45

\* `if fg_avg < 100`
MinFgAvg == 100

\* _recognize_soul, from what it measures: whether the "full" template
\* matches, and the averages of fg_mask2 and of empty_mask.
recognize_soul(is_full, fg_avg, empty_avg) ==
    IF is_full THEN Rat(1)
    ELSE IF fg_avg < MinFgAvg THEN Rat(-1)
    ELSE Clamp01(RatSub(Rat(1), Frac(empty_avg, fg_avg - OutlineAvg)))

\* _recognize_has_soul_burst, from the average of its mask
recognize_has_soul_burst(sc, mask_avg) ==
    IF sc # "AOHARU" THEN FALSE ELSE mask_avg > 80

\* _recognize_has_training, from the average of its mask
recognize_has_training(sc, mask_avg) ==
    IF sc # "AOHARU" THEN FALSE ELSE mask_avg > 80

\* _recognize_has_hint, from the average of its mask
recognize_has_hint(mask_avg) == mask_avg > 200

\* The colours of type_colors, by the type each stands for.
TypeColors == {"speed", "stamina", "power", "guts", "wisdom", "friend",
               "group"}

\* _recognize_type_color, from the type colour the pixel is within 0.9 of
\* ("none": of no colour of the table).
recognize_type_color(color) == IF color \in TypeColors THEN color ELSE "other"

\* Mutant of EvaluatesMarkers: the markers and the gauge are read in every
\* scenario.
EvaluatesMarkersAlways(sc) == TRUE

\* `if ctx.scenario == ctx.SCENARIO_AOHARU` of _recognize_partner_icon
EvaluatesMarkers(sc) == sc = "AOHARU"

\* Mutant of NoPartner: one undetermined value is enough.
NoPartnerEither(level, soul) == level < 0 \/ RatLess(soul, Rat(0))

\* `if level < 0 and soul < 0: return None`
NoPartner(level, soul) == level < 0 /\ RatLess(soul, Rat(0))

\* Whether _recognize_partner_icon calls _recognize_soul on the icon.
recognize_soul_called(sc, ic) ==
    EvaluatesMarkers(sc) /\ ~recognize_has_soul_burst(sc, ic.burst_avg)

\* _recognize_partner_icon, from the measurements ic of the icon: <<>> for
\* None, <<p>> for the Partner p.
recognize_partner_icon(sc, ic) ==
    LET burst == IF EvaluatesMarkers(sc)
                 THEN recognize_has_soul_burst(sc, ic.burst_avg)
                 ELSE FALSE
        has_training == IF EvaluatesMarkers(sc)
                        THEN IF burst THEN TRUE
                             ELSE recognize_has_training(sc, ic.training_avg)
                        ELSE FALSE
        soul == IF EvaluatesMarkers(sc)
                THEN IF burst THEN Rat(1)
                     ELSE recognize_soul(ic.is_full, ic.fg_avg, ic.empty_avg)
                ELSE Rat(-1)
        type == recognize_type_color(ic.type_color)
    IN  IF NoPartner(ic.level, soul) THEN <<>>
        ELSE << [level |-> ic.level,
                 soul |-> IF burst THEN Rat(1) ELSE soul,
                 has_hint |-> recognize_has_hint(ic.hint_avg),
                 has_training |-> IF burst THEN TRUE ELSE has_training,
                 has_soul_burst |-> burst,
                 type |-> IF ~RatLess(soul, Rat(0)) /\ type = "other"
                          THEN "teammate" ELSE type] >>

\* np.average of a mask of 0 and 255.
MaskAverages == 0..255

\* Measurements of an icon: the mark and hint averages at both sides of
\* their cutoffs, the gauge averages at both sides of the population
\* threshold and of the outline constant.
MarkSamples == {80, 81}

HintSamples == {200, 201}

GaugeSamples == {0, 99, 100, 145, 200, 255}

TypeColorSamples == {"speed", "none"}

PartnerLevels == -1..5

Icons == [level : PartnerLevels, burst_avg : MarkSamples,
          training_avg : MarkSamples, is_full : BOOLEAN,
          fg_avg : GaugeSamples, empty_avg : GaugeSamples,
          hint_avg : HintSamples, type_color : TypeColorSamples]

SoulInit ==
    /\ OrchIdle /\ GeoIdle /\ RateIdle /\ ExtIdle
    /\ soul_ret = <<>>
    /\ partner = <<>>
    /\ \/ /\ soul_phase = "soul"
          /\ soul_call \in [is_full : BOOLEAN, fg_avg : MaskAverages,
                            empty_avg : MaskAverages]
          /\ icon_scenario = None
          /\ icon = None
       \/ /\ soul_phase = "icon"
          /\ soul_call = None
          /\ icon_scenario \in {"URA", "AOHARU"}
          /\ icon \in Icons

\* _recognize_soul(rp, screenshot, icon_bbox)
RecognizeSoul ==
    /\ soul_phase = "soul"
    /\ soul_ret' = <<recognize_soul(soul_call.is_full, soul_call.fg_avg,
                                    soul_call.empty_avg)>>
    /\ soul_phase' = "soul_done"
    /\ UNCHANGED <<orchVars, geoVars, rateVars, extVars, soul_call,
                   icon_scenario, icon, partner>>

\* _recognize_partner_icon(ctx, img, bbox)
RecognizePartnerIcon ==
    /\ soul_phase = "icon"
    /\ partner' = recognize_partner_icon(icon_scenario, icon)
    /\ soul_phase' = "icon_done"
    /\ UNCHANGED <<orchVars, geoVars, rateVars, extVars, soul_call, soul_ret,
                   icon_scenario, icon>>

SoulNext ==
    \/ RecognizeSoul
    \/ RecognizePartnerIcon

SpecSoul == SoulInit /\ [][SoulNext]_vars

\* -1, or a value of the closed range from 0 to 1.
ValidSoul(r) == r.d > 0 /\ (r.n = -r.d \/ (0 <= r.n /\ r.n <= r.d))

\* C9: the bond ratio _recognize_soul returns is 1 when the "full" template
\* matches, -1 when the foreground average is below 100, and otherwise
\* 1 - empty_avg / (fg_avg - 45) brought into the range from 0 to 1; the soul
\* of a Partner is -1 or in that range, and 1 when a soul burst is detected.
C9_SoulRange ==
    /\ soul_phase = "soul_done" =>
         LET r == soul_ret[1]
             c == soul_call
         IN  /\ ValidSoul(r)
             /\ c.is_full => r.n = r.d
             /\ (~c.is_full /\ c.fg_avg < 100) => r.n = -r.d
             /\ (~c.is_full /\ c.fg_avg >= 100) =>
                  /\ 0 <= r.n /\ r.n <= r.d
                  /\ IF c.empty_avg >= c.fg_avg - 45
                     THEN r.n = 0
                     ELSE r.n * (c.fg_avg - 45)
                            = (c.fg_avg - 45 - c.empty_avg) * r.d
    /\ (soul_phase = "icon_done" /\ partner # <<>>) =>
         /\ ValidSoul(partner[1].soul)
         /\ (icon_scenario = "AOHARU" /\ icon.burst_avg > 80) =>
               partner[1].soul.n = partner[1].soul.d

\* The ratio computed is below 0, and 0 is returned.
C9_Witness ==
    /\ soul_phase = "soul_done"
    /\ ~soul_call.is_full
    /\ soul_call.fg_avg >= 100
    /\ soul_call.empty_avg > soul_call.fg_avg - 45
    /\ soul_ret[1].n = 0

-----------------------------------------------------------------------------
(* The failure rate                                                        *)

\* The characters of the texts ocr.text returns.
OcrChars == {"0", "1", "5", "%", "."}

\* The longest text ocr.text returns.
MaxOcrLen == 3

OcrTexts == UNION {[1..n -> OcrChars] : n \in 0..MaxOcrLen}

DigitValue == [c \in {"0", "1", "2", "3", "4", "5", "6", "7", "8", "9"} |->
                CASE c = "0" -> 0 [] c = "1" -> 1 [] c = "2" -> 2
                  [] c = "3" -> 3 [] c = "4" -> 4 [] c = "5" -> 5
                  [] c = "6" -> 6 [] c = "7" -> 7 [] c = "8" -> 8
                  [] c = "9" -> 9]

IsDigit(c) == c \in DOMAIN DigitValue

\* re.sub("[^0-9]", "", text)
StripNonDigits(text) == SelectSeq(text, IsDigit)

RECURSIVE DecimalValue(_)
\* The number a string of decimal digits writes.
DecimalValue(ds) ==
    IF ds = <<>> THEN 0
    ELSE 10 * DecimalValue(SubSeq(ds, 1, Len(ds) - 1)) + DigitValue[ds[Len(ds)]]

\* int(s) of a string of decimal digits: ValueError for the empty string.
ParseInt(ds) == IF ds = <<>> THEN Raise("ValueError") ELSE Ok(DecimalValue(ds))

\* _recognize_failure_rate, from the text ocr.text returns:
\* `int(re.sub("[^0-9]", "", text)) / 100`
recognize_failure_rate(text) ==
    LET v == ParseInt(StripNonDigits(text))
    IN  IF v.ok THEN Ok(Frac(v.val, 100)) ELSE v

RateInit ==
    /\ OrchIdle /\ GeoIdle /\ SoulIdle /\ ExtIdle
    /\ ocr_text \in OcrTexts
    /\ failure_rate = <<>>

\* _recognize_failure_rate(rp, trn, img)
RecognizeFailureRate ==
    /\ failure_rate = <<>>
    /\ failure_rate' = <<recognize_failure_rate(ocr_text)>>
    /\ UNCHANGED <<orchVars, geoVars, soulVars, extVars, ocr_text>>

RateNext == RecognizeFailureRate

SpecFailureRate == RateInit /\ [][RateNext]_vars

\* C10: the failure rate of a Training is in the range from 0.0 to 1.0,
\* whatever text the OCR returns.
C10_FailureRateInUnit ==
    (failure_rate # <<>> /\ failure_rate[1].ok) =>
        /\ 0 <= failure_rate[1].val.n
        /\ failure_rate[1].val.n <= failure_rate[1].val.d

-----------------------------------------------------------------------------
(* The vitality estimate                                                   *)

\* A training type vit_data has no entry for.
TypeUnknown == "unknown"

\* vit_data of _estimate_vitality
VitData ==
    [t \in {"speed", "stamina", "power", "guts", "wisdom"} |->
        CASE t = "speed"   -> <<-21, -22, -23, -25, -27>>
          [] t = "stamina" -> <<-19, -20, -21, -23, -25>>
          [] t = "power"   -> <<-20, -21, -22, -24, -26>>
          [] t = "guts"    -> <<-22, -23, -24, -26, -28>>
          [] t = "wisdom"  -> <<5, 5, 5, 5, 5>>]

\* Python's t[i] on a tuple: an index below 0 counts from the end, and an
\* index outside -len(t) .. len(t) - 1 is an IndexError.
TupleIndex(t, i) ==
    IF 0 <= i /\ i < Len(t) THEN Ok(t[i + 1])
    ELSE IF -Len(t) <= i /\ i < 0 THEN Ok(t[Len(t) + i + 1])
    ELSE Raise("IndexError")

\* _estimate_vitality(ctx, trn)
estimate_vitality(max_vitality, trn) ==
    IF trn.type \notin DOMAIN VitData THEN Ok(Rat(0))
    ELSE LET c == TupleIndex(VitData[trn.type], trn.level - 1)
         IN  IF c.ok THEN Ok(Frac(c.val, max_vitality)) ELSE c

\* Scenarios _recognize_training is run with: one whose level pixel is
\* read, and the one whose level is left as Training.new() made it.
VitScenarios == {"URA", "UAF_READY_GO"}

\* Marker positions: the slot centers of the default table.
VitPositions == {<<78, 850>>, <<171, 850>>, <<268, 850>>, <<367, 850>>,
                 <<461, 850>>}

\* Values of ctx.max_vitality.
MaxVitalities == {100, 120}

\* Levels a Training holds: as made by Training.new(), or recognized.
TrainingLevels == {LevelUnknown} \cup (1..5)

VitInit ==
    /\ OrchIdle /\ GeoIdle /\ SoulIdle /\ RateIdle
    /\ EffIdle /\ LvlIdle /\ PartIdle
    /\ vit_max \in MaxVitalities
    /\ vit_ret = <<>>
    /\ \/ /\ vit_phase = "new"
          /\ vit_scenario \in VitScenarios
          /\ vit_pos \in VitPositions
          /\ vit_color \in LevelColors
          /\ vit_trn = [type |-> TypeUnknown, level |-> LevelUnknown]
       \/ /\ vit_phase = "direct"
          /\ vit_scenario = None
          /\ vit_pos = None
          /\ vit_color = None
          /\ vit_trn \in [type : {ALL_TYPES[i] : i \in 1..Len(ALL_TYPES)}
                                   \cup {TypeUnknown},
                          level : TrainingLevels]

\* _recognize_training: `self = Training.new()` and the loop that sets
\* self.type.
VitRecognizeType ==
    /\ vit_phase = "new"
    /\ vit_trn' = [vit_trn EXCEPT !.type = TrainingType(vit_scenario, vit_pos)]
    /\ vit_phase' = "typed"
    /\ UNCHANGED <<orchVars, geoVars, soulVars, rateVars, effVars, lvlVars,
                   partVars>>
    /\ UNCHANGED <<vit_scenario, vit_pos, vit_color, vit_max, vit_ret>>

\* _recognize_training: `if ctx.scenario != ctx.SCENARIO_UAF_READY_GO:
\* self.level = _recognize_level(...)`.
VitRecognizeLevel ==
    /\ vit_phase = "typed"
    /\ IF vit_scenario # "UAF_READY_GO"
       THEN LET l == recognize_level(vit_color)
            IN  IF l.ok
                THEN /\ vit_trn' = [vit_trn EXCEPT !.level = l.val]
                     /\ vit_phase' = "levelled"
                     /\ UNCHANGED vit_ret
                ELSE /\ vit_phase' = "raised"
                     /\ vit_ret' = <<l>>
                     /\ UNCHANGED vit_trn
       ELSE /\ vit_phase' = "levelled"
            /\ UNCHANGED <<vit_trn, vit_ret>>
    /\ UNCHANGED <<orchVars, geoVars, soulVars, rateVars, effVars, lvlVars,
                   partVars>>
    /\ UNCHANGED <<vit_scenario, vit_pos, vit_color, vit_max>>

\* `self.vitality = _estimate_vitality(ctx, self)`, or the function called
\* on a Training of its own.
VitEstimate ==
    /\ vit_phase \in {"levelled", "direct"}
    /\ vit_ret' = <<estimate_vitality(vit_max, vit_trn)>>
    /\ vit_phase' = "done"
    /\ UNCHANGED <<orchVars, geoVars, soulVars, rateVars, effVars, lvlVars,
                   partVars>>
    /\ UNCHANGED <<vit_scenario, vit_pos, vit_color, vit_max, vit_trn>>

VitNext ==
    \/ VitRecognizeType
    \/ VitRecognizeLevel
    \/ VitEstimate

SpecVitality == VitInit /\ [][VitNext]_vars

\* C11: the vitality estimate is the table entry of the training's own
\* level over max_vitality: positive for wisdom, negative for the other four
\* types with a magnitude that grows with the level, 0 for a type the table
\* does not have; and a training whose level is unknown is not given the
\* cost of one of the levels 1 to 5.
C11_VitalityOfOwnLevel ==
    vit_phase = "done" =>
        LET t == vit_trn.type
            l == vit_trn.level
            r == vit_ret[1]
        IN  /\ t \notin DOMAIN VitData => (r.ok /\ r.val.n = 0)
            /\ (t \in DOMAIN VitData /\ l \in 1..5) =>
                 /\ r.ok
                 /\ r.val = Frac(VitData[t][l], vit_max)
                 /\ t = "wisdom" => r.val.n > 0
                 /\ t # "wisdom" =>
                      /\ r.val.n < 0
                      /\ \A k \in 1..(l - 1) : VitData[t][k] > r.val.n
            /\ (t \in DOMAIN VitData /\ l \notin 1..5) =>
                 (r.ok => \A k \in 1..5 : r.val # Frac(VitData[t][k], vit_max))

-----------------------------------------------------------------------------
(* The effect-digit recognizers                                            *)

\* The characters of the texts ocr.text returns for a glyph mask.
EffChars == {"+", "-", "0", "1", "x"}

EffTexts == UNION {[1..n -> EffChars] : n \in 0..MaxOcrLen}

RECURSIVE LStripPlus(_)
\* text.lstrip("+"): every leading "+" is removed.
LStripPlus(text) ==
    IF text # <<>> /\ Head(text) = "+" THEN LStripPlus(Tail(text)) ELSE text

\* int(s): an optional sign and then one or more decimal digits; anything
\* else is a ValueError.
ParseSignedInt(s) ==
    LET signed == s # <<>> /\ Head(s) \in {"+", "-"}
        ds     == IF signed THEN Tail(s) ELSE s
    IN  IF ds = <<>> \/ \E i \in 1..Len(ds) : ~IsDigit(ds[i])
        THEN Raise("ValueError")
        ELSE IF signed /\ Head(s) = "-" THEN Ok(-DecimalValue(ds))
        ELSE Ok(DecimalValue(ds))

\* `if not text: return 0` and `return int(text.lstrip("+"))`
parse_effect_text(text) ==
    IF text = <<>> THEN Ok(0) ELSE ParseSignedInt(LStripPlus(text))

\* `if cv2.countNonZero(text_img) < 100`
MinGlyphPixels == 100

\* `if hash_sim > 0.9`, the similarity in hundredths.
HashThreshold == 90

\* Mutant of HashIs100: a similarity of 0.9 is taken as well.
HashIs100Loose(hash_sim) == hash_sim >= HashThreshold

\* `if hash_sim > 0.9: return 100`
HashIs100(hash_sim) == hash_sim > HashThreshold

\* _recognize_base_effect, from what it measures on the glyph mask: what it
\* returns or raises, and whether it called ocr.text.
recognize_base_effect(count, hash_sim, text) ==
    IF count < MinGlyphPixels THEN [ret |-> Ok(0), ocr |-> FALSE]
    ELSE IF HashIs100(hash_sim) THEN [ret |-> Ok(100), ocr |-> FALSE]
    ELSE [ret |-> parse_effect_text(text), ocr |-> TRUE]

\* _recognize_red_effect: the text of the glyph mask is read in every case.
recognize_red_effect(count, hash_sim, text) ==
    [ret |-> parse_effect_text(text), ocr |-> TRUE]

\* Non-zero pixel counts of the glyph mask, at both sides of the cutoff.
GlyphCounts == {99, 100}

\* Similarities of the mask's hash to hash100, at both sides of 0.9.
HashSims == {90, 91}

EffInit ==
    /\ OrchIdle /\ GeoIdle /\ SoulIdle /\ RateIdle
    /\ VitIdle /\ LvlIdle /\ PartIdle
    /\ eff_variant \in {"base", "red"}
    /\ eff_count \in GlyphCounts
    /\ eff_hash_sim \in HashSims
    \* A mask as similar as that to the mask of a "100" has its pixels.
    /\ eff_count < MinGlyphPixels => ~HashIs100(eff_hash_sim)
    /\ eff_text \in EffTexts
    /\ eff_ocr = FALSE
    /\ eff_ret = <<>>

\* _recognize_base_effect(img)
RecognizeBaseEffect ==
    /\ eff_variant = "base"
    /\ eff_ret = <<>>
    /\ LET r == recognize_base_effect(eff_count, eff_hash_sim, eff_text)
       IN  eff_ret' = <<r.ret>> /\ eff_ocr' = r.ocr
    /\ UNCHANGED <<orchVars, geoVars, soulVars, rateVars, vitVars, lvlVars,
                   partVars>>
    /\ UNCHANGED <<eff_variant, eff_count, eff_hash_sim, eff_text>>

\* _recognize_red_effect(img)
RecognizeRedEffect ==
    /\ eff_variant = "red"
    /\ eff_ret = <<>>
    /\ LET r == recognize_red_effect(eff_count, eff_hash_sim, eff_text)
       IN  eff_ret' = <<r.ret>> /\ eff_ocr' = r.ocr
    /\ UNCHANGED <<orchVars, geoVars, soulVars, rateVars, vitVars, lvlVars,
                   partVars>>
    /\ UNCHANGED <<eff_variant, eff_count, eff_hash_sim, eff_text>>

EffNext ==
    \/ RecognizeBaseEffect
    \/ RecognizeRedEffect

SpecEffect == EffInit /\ [][EffNext]_vars

EffDone == eff_ret # <<>>

\* C12, as claimed: in both variants a glyph mask whose hash is more than
\* 0.9 similar to a hash of hash100 gives 100, and ocr.text is not called.
C12_BothShortCircuit ==
    (EffDone /\ eff_hash_sim > 90) =>
        (eff_ret[1] = Ok(100) /\ ~eff_ocr)

\* C12, amended: the base variant, for a glyph mask of at least 100 non-zero
\* pixels, returns 100 without calling ocr.text exactly when the similarity
\* is above 0.9, and below 100 pixels returns 0 without calling it; the red
\* variant calls ocr.text on every mask and returns what the text parses to.
C12_BaseShortCircuitOnly ==
    EffDone =>
        /\ (eff_variant = "base" /\ eff_count >= 100 /\ eff_hash_sim > 90) =>
             (eff_ret[1] = Ok(100) /\ ~eff_ocr)
        /\ (eff_variant = "base" /\ eff_count >= 100 /\ eff_hash_sim <= 90) =>
             (eff_ocr /\ eff_ret[1] = parse_effect_text(eff_text))
        /\ (eff_variant = "base" /\ eff_count < 100) =>
             (eff_ret[1] = Ok(0) /\ ~eff_ocr)
        /\ eff_variant = "red" =>
             (eff_ocr /\ eff_ret[1] = parse_effect_text(eff_text))

\* The base variant returns 100 for a mask whose text would read otherwise.
C12_Witness ==
    /\ EffDone
    /\ eff_variant = "base"
    /\ eff_hash_sim > 90
    /\ eff_ret[1] = Ok(100)
    /\ ~eff_ocr
    /\ eff_text = <<"1", "0">>

\* C13: a recognizer that reached OCR returns 0 for the empty text, never
\* returns a negative number, and raises for a text that is not a number.
C13_NeverNegative ==
    (EffDone /\ eff_ocr) =>
        /\ eff_text = <<>> => eff_ret[1] = Ok(0)
        /\ eff_ret[1].ok => eff_ret[1].val >= 0
        /\ (\E i \in 1..Len(eff_text) : eff_text[i] = "x") => ~eff_ret[1].ok

-----------------------------------------------------------------------------
(* The bond level of a partner icon                                        *)

\* `colors` of _recognize_partner_level, by name: empty, level 1, level 2
\* (the same colour as level 1), level 3, level 4, level 5.
PartnerLevelColors == <<"empty", "blue", "blue", "green", "orange", "yellow">>

\* colors[k]
LevelColor(k) == PartnerLevelColors[k + 1]

\* Mutant of LevelSpec: the level-1 pattern does not check the second
\* position.
LevelSpecLoose ==
    << << <<1, LevelColor(0)>>, <<2, LevelColor(0)>>, <<3, LevelColor(0)>>,
          <<4, LevelColor(0)>>, <<5, LevelColor(0)>> >>,
       << <<1, LevelColor(1)>>, <<3, LevelColor(0)>>,
          <<4, LevelColor(0)>>, <<5, LevelColor(0)>> >>,
       << <<1, LevelColor(2)>>, <<2, LevelColor(2)>>,
          <<4, LevelColor(0)>>, <<5, LevelColor(0)>> >>,
       << <<1, LevelColor(3)>>, <<2, LevelColor(3)>>, <<3, LevelColor(3)>>,
          <<5, LevelColor(0)>> >>,
       << <<1, LevelColor(4)>>, <<2, LevelColor(4)>>, <<3, LevelColor(4)>>,
          <<4, LevelColor(4)>> >>,
       << <<1, LevelColor(5)>>, <<5, LevelColor(5)>> >> >>

\* `spec` of _recognize_partner_level: per level 0..5 the (position, colour)
\* checks, the positions numbered 1..5 as in `pos`.
LevelSpec ==
    << << <<1, LevelColor(0)>>, <<2, LevelColor(0)>>, <<3, LevelColor(0)>>,
          <<4, LevelColor(0)>>, <<5, LevelColor(0)>> >>,
       << <<1, LevelColor(1)>>, <<2, LevelColor(0)>>, <<3, LevelColor(0)>>,
          <<4, LevelColor(0)>>, <<5, LevelColor(0)>> >>,
       << <<1, LevelColor(2)>>, <<2, LevelColor(2)>>,
          <<4, LevelColor(0)>>, <<5, LevelColor(0)>> >>,
       << <<1, LevelColor(3)>>, <<2, LevelColor(3)>>, <<3, LevelColor(3)>>,
          <<5, LevelColor(0)>> >>,
       << <<1, LevelColor(4)>>, <<2, LevelColor(4)>>, <<3, LevelColor(4)>>,
          <<4, LevelColor(4)>> >>,
       << <<1, LevelColor(5)>>, <<5, LevelColor(5)>> >> >>

\* imagetools.compare_color_near(icon, pos, color), in hundredths: what is
\* seen at a position is the colour of the table it is nearest to and its
\* similarity to that colour; to the other colours of the table, which are
\* far from it, it is less than 0.95 similar.
Similarity(px, color) == IF px.color = color THEN px.sim ELSE 0

\* `compare_color_near(...) > 0.95`
ColorMatches(px, color) == Similarity(px, color) > 95

\* `all(... for pos, color in s)`
PatternMatches(s, pixels) ==
    \A c \in 1..Len(s) : ColorMatches(pixels[s[c][1]], s[c][2])

\* _recognize_partner_level: the first level whose pattern matches, or -1.
recognize_partner_level(pixels) ==
    IF \E k \in 0..5 : PatternMatches(LevelSpec[k + 1], pixels)
    THEN CHOOSE k \in 0..5 :
             /\ PatternMatches(LevelSpec[k + 1], pixels)
             /\ \A j \in 0..(k - 1) : ~PatternMatches(LevelSpec[j + 1], pixels)
    ELSE -1

\* What is seen at one position: a colour of the table, at a similarity of
\* 0.95 or of 0.96.
LevelPixels == [color : {"empty", "blue", "green", "orange", "yellow"},
                sim : {95, 96}]

LvlInit ==
    /\ OrchIdle /\ GeoIdle /\ SoulIdle /\ RateIdle
    /\ VitIdle /\ EffIdle /\ PartIdle
    /\ lvl_pixels \in [1..5 -> LevelPixels]
    /\ lvl_ret = <<>>

\* _recognize_partner_level(rp, icon_img)
RecognizePartnerLevel ==
    /\ lvl_ret = <<>>
    /\ lvl_ret' = <<recognize_partner_level(lvl_pixels)>>
    /\ UNCHANGED <<orchVars, geoVars, soulVars, rateVars, vitVars, effVars,
                   partVars>>
    /\ UNCHANGED lvl_pixels

LvlNext == RecognizePartnerLevel

SpecLevel == LvlInit /\ [][LvlNext]_vars

\* The colour the icon of bond level k shows at position p: the first k
\* pips are lit in the colour of level k, the others are empty.
PipColor(k, p) == IF p <= k THEN LevelColor(k) ELSE LevelColor(0)

\* C14: the level returned is in -1..5; at most one of the six patterns is
\* matched in full, a check counting only above 0.95; the level is that of
\* the pattern matched, and -1 when none is; and an icon that shows the
\* pips of level k clearly is given level k.
C14_LevelTable ==
    lvl_ret # <<>> =>
        LET clear(p, c) == lvl_pixels[p].color = c /\ lvl_pixels[p].sim > 95
            full == {k \in 0..5 :
                       \A c \in 1..Len(LevelSpec[k + 1]) :
                           clear(LevelSpec[k + 1][c][1], LevelSpec[k + 1][c][2])}
        IN  /\ lvl_ret[1] \in -1..5
            /\ Cardinality(full) <= 1
            /\ full = {} <=> lvl_ret[1] = -1
            /\ \A k \in full : lvl_ret[1] = k
            /\ \A k \in 0..5 :
                   (\A p \in 1..5 : clear(p, PipColor(k, p))) => lvl_ret[1] = k

\* Two lit pips and a third position that is not empty: level 2.
C14_Witness ==
    /\ lvl_ret = <<2>>
    /\ lvl_pixels[3].color = "green"
    /\ lvl_pixels[2].sim = 96

-----------------------------------------------------------------------------
(* The enumeration of the partners of a slot                               *)

\* `icons_bottom = rp.vector(578, 540)`
IconsBottom == 578

\* `while icon_bbox[2] < icons_bottom`: the element at index 2 of
\* (left, top, right, bottom), which is the right edge.
WithinStack(bbox) == bbox[3] < IconsBottom

\* The icon_bbox of the next turn of the loop.
NextIconBbox(bbox, offset) ==
    <<bbox[1], bbox[2] + offset, bbox[3], bbox[4] + offset>>

\* Scenarios _recognize_partners is run with: a stride of 90, a stride of
\* 86 with the scenario markers, and one the table does not have.
PartScenarios == {"URA", "AOHARU", UnknownScenario}

\* What the recognizers measure on the icon regions of a screenshot: no
\* icon; a soul burst mark and no pips; a gauge and no pips; pips and no
\* gauge; pips, a hint and a full gauge; a training mark and nothing else.
StackIcons ==
    { [level |-> -1, burst_avg |-> 80, training_avg |-> 80, is_full |-> FALSE,
       fg_avg |-> 0, empty_avg |-> 0, hint_avg |-> 200, type_color |-> "none"],
      [level |-> -1, burst_avg |-> 81, training_avg |-> 80, is_full |-> FALSE,
       fg_avg |-> 0, empty_avg |-> 0, hint_avg |-> 200, type_color |-> "none"],
      [level |-> -1, burst_avg |-> 80, training_avg |-> 81, is_full |-> FALSE,
       fg_avg |-> 200, empty_avg |-> 31, hint_avg |-> 200, type_color |-> "none"],
      [level |-> 0, burst_avg |-> 80, training_avg |-> 80, is_full |-> FALSE,
       fg_avg |-> 99, empty_avg |-> 0, hint_avg |-> 200, type_color |-> "none"],
      [level |-> 2, burst_avg |-> 80, training_avg |-> 81, is_full |-> TRUE,
       fg_avg |-> 200, empty_avg |-> 0, hint_avg |-> 201, type_color |-> "speed"],
      [level |-> -1, burst_avg |-> 80, training_avg |-> 81, is_full |-> FALSE,
       fg_avg |-> 99, empty_avg |-> 0, hint_avg |-> 200, type_color |-> "none"] }

\* The most icon regions followed down one screenshot.
MaxExamined == 6

PartInit ==
    /\ OrchIdle /\ GeoIdle /\ SoulIdle /\ RateIdle
    /\ VitIdle /\ EffIdle /\ LvlIdle
    /\ part_scenario \in PartScenarios
    /\ part_phase = "start"
    /\ part_bbox = <<>>
    /\ part_offset = 0
    /\ part_examined = <<>>
    /\ part_partners = <<>>

\* `icon_bbox, icon_y_offset = {...}[ctx.scenario]`
PartLookup ==
    /\ part_phase = "start"
    /\ LET g == partner_icon_geometry(part_scenario)
       IN  IF g.ok
           THEN /\ part_bbox' = g.val[1]
                /\ part_offset' = g.val[2]
                /\ part_phase' = "loop"
           ELSE /\ part_phase' = "raised"
                /\ UNCHANGED <<part_bbox, part_offset>>
    /\ UNCHANGED <<orchVars, geoVars, soulVars, rateVars, vitVars, effVars,
                   lvlVars>>
    /\ UNCHANGED <<part_scenario, part_examined, part_partners>>

\* One turn of the while loop: the condition, _recognize_partner_icon on
\* the region, `if not v: break`, `yield v` and the step down.
PartExamine ==
    /\ part_phase = "loop"
    /\ Len(part_examined) < MaxExamined
    /\ IF ~WithinStack(part_bbox)
       THEN /\ part_phase' = "done"
            /\ UNCHANGED <<part_bbox, part_examined, part_partners>>
       ELSE \E ic \in StackIcons :
              LET v == recognize_partner_icon(part_scenario, ic)
              IN  /\ part_examined' =
                       Append(part_examined,
                              [bbox |-> part_bbox, icon |-> ic, v |-> v,
                               gauge |-> recognize_soul_called(part_scenario,
                                                               ic)])
                  /\ IF v = <<>>
                     THEN /\ part_phase' = "done"
                          /\ UNCHANGED <<part_bbox, part_partners>>
                     ELSE /\ part_partners' =
                               Append(part_partners,
                                      [icon_bbox |-> part_bbox,
                                       partner |-> v[1]])
                          /\ part_bbox' = NextIconBbox(part_bbox, part_offset)
                          /\ UNCHANGED part_phase
    /\ UNCHANGED <<orchVars, geoVars, soulVars, rateVars, vitVars, effVars,
                   lvlVars>>
    /\ UNCHANGED <<part_scenario, part_offset>>

PartNext ==
    \/ PartLookup
    \/ PartExamine

SpecPartners == PartInit /\ [][PartNext]_vars

\* The regions examined that gave a Partner.
YieldedAt == {k \in 1..Len(part_examined) : part_examined[k].v # <<>>}

\* C15: an icon region gives no Partner exactly when the bond level is -1
\* and the bond ratio is undetermined; only the last region examined gives
\* none, and the enumeration then ends without raising; the Partners of the
\* slot are those of the regions before it, in order from the top down; and
\* every Partner has a level or a bond ratio of 0 or more.
C15_LeadingRun ==
    /\ \A k \in 1..Len(part_examined) :
         LET ic == part_examined[k].icon
             no_soul == \/ part_scenario # "AOHARU"
                        \/ /\ ic.burst_avg <= 80
                           /\ ~ic.is_full
                           /\ ic.fg_avg < 100
         IN  /\ part_examined[k].v = <<>> <=> (ic.level = -1 /\ no_soul)
             /\ part_examined[k].v = <<>> =>
                  (k = Len(part_examined) /\ part_phase = "done")
             /\ part_examined[k].bbox[2]
                  = partner_icon_geometry(part_scenario).val[1][2]
                      + (k - 1) * part_offset
    /\ Len(part_partners) = Cardinality(YieldedAt)
    /\ \A k \in 1..Len(part_partners) :
         /\ part_partners[k].partner = part_examined[k].v[1]
         /\ part_partners[k].icon_bbox = part_examined[k].bbox
         /\ \/ part_partners[k].partner.level >= 0
            \/ part_partners[k].partner.soul.n >= 0
    /\ part_phase = "raised" => (part_examined = <<>> /\ part_partners = <<>>)

\* Two Partners, the first without a level, and then a region with none.
C15_Witness ==
    /\ part_phase = "done"
    /\ Len(part_partners) = 2
    /\ Len(part_examined) = 3
    /\ part_partners[1].partner.level = -1
    /\ part_examined[3].icon.training_avg = 81

\* C17: outside the Aoharu scenario a Partner has neither has_training nor
\* has_soul_burst and a soul of -1; in the Aoharu scenario a Partner with
\* has_soul_burst has has_training and a soul of 1, and _recognize_soul was
\* not called for it.
C17_AoharuMarkers ==
    \A k \in 1..Len(part_partners) :
        LET p == part_partners[k].partner
        IN  /\ part_scenario # "AOHARU" =>
                 /\ ~p.has_training
                 /\ ~p.has_soul_burst
                 /\ p.soul = Rat(-1)
            /\ (part_scenario = "AOHARU" /\ p.has_soul_burst) =>
                 /\ p.has_training
                 /\ p.soul = Rat(1)
                 /\ ~part_examined[k].gauge

\* Outside Aoharu an icon with a full gauge and a training mark gives a
\* Partner without them.
C17_Witness ==
    /\ part_scenario = "URA"
    /\ Len(part_partners) >= 1
    /\ part_examined[1].icon.is_full
    /\ part_examined[1].icon.training_avg > 80
    /\ part_partners[1].partner.soul = Rat(-1)

\* C18: no icon region that begins at or below the bottom limit of the icon
\* stack is examined, and so none is the region of a Partner: a slot has no
\* more Partners than regions begin above the limit.
C18_BoundedByBottom ==
    /\ \A k \in 1..Len(part_examined) : part_examined[k].bbox[2] < IconsBottom
    /\ \A k \in 1..Len(part_partners) :
         part_partners[k].icon_bbox[2] < IconsBottom

====
